---- MODULE Spec2Model ----
(***************************************************************************)
(* Model of src/devflow.py: WorktreeManager.get_worktrees (porcelain       *)
(* parser, metadata pass, children lists), DevFlowTUI.create_worktree_tree *)
(* with _add_children_to_tree (tree assembly) and                          *)
(* MCPServerManager.get_status (pid-file liveness tracker).                *)
(*                                                                         *)
(* Text is modelled as sequences of tokens.  The token alphabet is a       *)
(* prefix code (no token is a prefix of another token that can stand at    *)
(* the same place), so str.startswith / str.replace on the characters      *)
(* coincide with prefix / replacement on the token sequences.              *)
(***************************************************************************)
EXTENDS Integers, Sequences, FiniteSets, TLC

VARIABLES
    run_exc,        \* the exception subprocess.run raises for the listing command, "" for none
    stdout,         \* text printed by `git worktree list --porcelain`: a sequence of lines
    sidecar,        \* file system: str(path) of a worktree |-> None or Some(file names of <path>/.context)
    wt_pc,          \* position in get_worktrees / create_worktree_tree
    i,              \* index of the next line of the parser loop
    current_wt,     \* the accumulator dict of the parser
    worktrees,      \* the list of dicts
    root_wts,       \* create_worktree_tree: indices (into worktrees) of the roots
    ri,             \* create_worktree_tree: number of roots already rendered
    tree,           \* the rich Tree: sequence of nodes [wt, parent]
    stack,          \* call stack of _add_children_to_tree: frames [node, wt, k]
    pid_dir_exists, \* file system: .mcp/pids exists
    pid_dir_writable, \* file system: entries of .mcp/pids may be removed
    pid_files,      \* file system: server name |-> None or Some(file)
    procs,          \* OS process table: pid |-> "own" | "other" | "none"
    st_pc,          \* position in get_status
    srv,            \* index of the server the loop of get_status is at
    pid_content,    \* local pid_content of get_status
    status,         \* the dict get_status is filling
    pid_files0,     \* history: pid_files when the running get_status call began
    calls,          \* history: one entry per get_status call that ended
    suspended       \* the locals and history of a second process that evaluates get_status
                    \* on the same pid directory, while it is not the one taking steps

wtvars == <<run_exc, stdout, sidecar, wt_pc, i, current_wt, worktrees, root_wts, ri, tree, stack>>
stvars == <<pid_dir_exists, pid_dir_writable, pid_files, procs, st_pc, srv, pid_content,
            status, pid_files0, calls, suspended>>
vars == <<run_exc, stdout, sidecar, wt_pc, i, current_wt, worktrees, root_wts, ri, tree, stack,
          pid_dir_exists, pid_dir_writable, pid_files, procs, st_pc, srv, pid_content,
          status, pid_files0, calls, suspended>>

(***************************************************************************)
(* Bounds                                                                  *)
(***************************************************************************)
MaxRecords == 3      \* records of a listing of the forest family
MaxLines == 4        \* lines of a listing of the parser family
RecursionLimit == 5  \* frames of _add_children_to_tree before RecursionError
NumServers == 2      \* configured servers taken from self.servers
MaxCalls == 2        \* consecutive get_status calls

(***************************************************************************)
(* Optional values (a dict key that may be missing)                        *)
(***************************************************************************)
None == <<>>
Some(v) == <<v>>

(***************************************************************************)
(* Strings as token sequences                                              *)
(***************************************************************************)
StartsWith(s, p) == Len(s) >= Len(p) /\ SubSeq(s, 1, Len(p)) = p

\* str.isspace of one token
IsSpace(t) == t \in {" ", "\n"}

RECURSIVE LStrip(_)
LStrip(s) == IF s # <<>> /\ IsSpace(s[1]) THEN LStrip(Tail(s)) ELSE s

RECURSIVE RStrip(_)
RStrip(s) == IF s # <<>> /\ IsSpace(s[Len(s)]) THEN RStrip(SubSeq(s, 1, Len(s) - 1)) ELSE s

\* str.split(' ', 1)[1]: what follows the first blank
RECURSIVE AfterFirstSpace(_)
AfterFirstSpace(s) == IF s[1] = " " THEN Tail(s) ELSE AfterFirstSpace(Tail(s))

\* str.replace(tok, ''): every occurrence of the token is removed
RECURSIVE RemoveAll(_, _)
RemoveAll(s, tok) ==
    IF s = <<>> THEN <<>>
    ELSE IF s[1] = tok THEN RemoveAll(Tail(s), tok)
    ELSE <<s[1]>> \o RemoveAll(Tail(s), tok)

\* result.stdout.strip().split('\n') on a text given as its lines
RECURSIVE StripLeft(_)
StripLeft(ls) ==
    IF ls = <<>> THEN <<>>
    ELSE IF LStrip(ls[1]) = <<>> THEN StripLeft(Tail(ls))
    ELSE <<LStrip(ls[1])>> \o Tail(ls)

RECURSIVE StripRight(_)
StripRight(ls) ==
    IF ls = <<>> THEN <<>>
    ELSE IF RStrip(ls[Len(ls)]) = <<>> THEN StripRight(SubSeq(ls, 1, Len(ls) - 1))
    ELSE SubSeq(ls, 1, Len(ls) - 1) \o <<RStrip(ls[Len(ls)])>>

StdoutLines(text) ==
    LET s == StripRight(StripLeft(text))
    IN IF s = <<>> THEN << <<>> >> ELSE s

(***************************************************************************)
(* pathlib.Path                                                            *)
(***************************************************************************)
\* the components of a path string: the runs of tokens between "/" tokens
RECURSIVE Parts(_, _)
Parts(s, cur) ==
    IF s = <<>> THEN (IF cur = <<>> THEN <<>> ELSE <<cur>>)
    ELSE IF s[1] = "/" THEN (IF cur = <<>> THEN <<>> ELSE <<cur>>) \o Parts(Tail(s), <<>>)
    ELSE Parts(Tail(s), Append(cur, s[1]))

Path(s) == [abs |-> s # <<>> /\ s[1] = "/", parts |-> Parts(s, <<>>)]

RECURSIVE JoinParts(_)
JoinParts(ps) ==
    IF ps = <<>> THEN <<>>
    ELSE IF Len(ps) = 1 THEN ps[1]
    ELSE ps[1] \o <<"/">> \o JoinParts(Tail(ps))

\* str(path)
Str(p) ==
    IF p.abs THEN <<"/">> \o JoinParts(p.parts)
    ELSE IF p.parts = <<>> THEN <<".">> ELSE JoinParts(p.parts)

\* path.name
PathName(p) == IF p.parts = <<>> THEN <<>> ELSE p.parts[Len(p.parts)]

\* path / component
Div(p, c) == IF c = <<>> THEN p ELSE [p EXCEPT !.parts = Append(@, c)]

\* self.root_dir = Path.cwd()
root_dir == Path(<<"/", "r">>)

(***************************************************************************)
(* WorktreeManager.get_worktrees                                           *)
(***************************************************************************)
\* current_wt = {}
EmptyWt == [path |-> None, head |-> None, branch |-> None, detached |-> None]

\* `if current_wt: worktrees.append(current_wt)`
Push(wts, cur) == IF cur # EmptyWt THEN Append(wts, cur) ELSE wts

\* a `worktree <path>` line: the open record is pushed, a new one starts
OnWorktreeLine_KeepsOpen(line, cur, wts) ==
    [wts |-> wts,
     cur |-> [cur EXCEPT !.path = Some(AfterFirstSpace(line))]]

OnWorktreeLine(line, cur, wts) ==
    [wts |-> Push(wts, cur),
     cur |-> [EmptyWt EXCEPT !.path = Some(AfterFirstSpace(line))]]

\* an empty line: the open record is pushed and the accumulator reset
OnBlankLine(cur, wts) ==
    [wts |-> Push(wts, cur),
     cur |-> IF cur # EmptyWt THEN EmptyWt ELSE cur]

\* the value of a `branch` line
BranchValue(line) == RemoveAll(AfterFirstSpace(line), "refs/heads/")

\* subprocess.run(["git", "worktree", "list", "--porcelain"], check=True) returns
RunListing ==
    /\ wt_pc = "run"
    /\ run_exc = ""
    /\ wt_pc' = "parse"
    /\ UNCHANGED <<run_exc, stdout, sidecar, i, current_wt, worktrees, root_wts, ri, tree, stack>>
    /\ UNCHANGED stvars

\* the exception of subprocess.run leaves get_worktrees and create_worktree_tree
ListingUnavailable_Reraises ==
    /\ wt_pc = "run"
    /\ run_exc \in {"CalledProcessError", "FileNotFoundError"}
    /\ wt_pc' = "raised"
    /\ UNCHANGED <<run_exc, stdout, sidecar, i, current_wt, worktrees, root_wts, ri, tree, stack>>
    /\ UNCHANGED stvars

\* `except subprocess.CalledProcessError` / `except FileNotFoundError`: return []
ListingUnavailable ==
    /\ wt_pc = "run"
    /\ run_exc \in {"CalledProcessError", "FileNotFoundError"}
    /\ worktrees' = <<>>
    /\ wt_pc' = "returned"
    /\ UNCHANGED <<run_exc, stdout, sidecar, i, current_wt, root_wts, ri, tree, stack>>
    /\ UNCHANGED stvars

\* one iteration of `for line in result.stdout.strip().split('\n')`
ParseStep(line, cur, wts) ==
    IF StartsWith(line, <<"worktree", " ">>) THEN OnWorktreeLine(line, cur, wts)
    ELSE IF StartsWith(line, <<"HEAD", " ">>)
        THEN [wts |-> wts, cur |-> [cur EXCEPT !.head = Some(AfterFirstSpace(line))]]
    ELSE IF StartsWith(line, <<"branch", " ">>)
        THEN [wts |-> wts, cur |-> [cur EXCEPT !.branch = Some(BranchValue(line))]]
    ELSE IF StartsWith(line, <<"detached">>)
        THEN [wts |-> wts, cur |-> [cur EXCEPT !.detached = Some(TRUE)]]
    ELSE IF line = <<>> THEN OnBlankLine(cur, wts)
    ELSE [wts |-> wts, cur |-> cur]

ParseLine ==
    /\ wt_pc = "parse"
    /\ i <= Len(StdoutLines(stdout))
    /\ LET r == ParseStep(StdoutLines(stdout)[i], current_wt, worktrees)
       IN /\ current_wt' = r.cur
          /\ worktrees' = r.wts
    /\ i' = i + 1
    /\ UNCHANGED <<run_exc, stdout, sidecar, wt_pc, root_wts, ri, tree, stack>>
    /\ UNCHANGED stvars

\* after the loop: `if current_wt: worktrees.append(current_wt)`
ParseEnd ==
    /\ wt_pc = "parse"
    /\ i > Len(StdoutLines(stdout))
    /\ worktrees' = Push(worktrees, current_wt)
    /\ wt_pc' = "meta"
    /\ UNCHANGED <<run_exc, stdout, sidecar, i, current_wt, root_wts, ri, tree, stack>>
    /\ UNCHANGED stvars

\* Path.glob('issue-*.md') applied to one file name
IsIssueFile(f) == Len(f) >= 2 /\ f[1] = "issue-" /\ f[Len(f)] = ".md"

\* the first file the enumeration yields that matches, as an optional value
RECURSIVE FirstIssueFile(_)
FirstIssueFile(fs) ==
    IF fs = <<>> THEN None
    ELSE IF IsIssueFile(fs[1]) THEN Some(fs[1])
    ELSE FirstIssueFile(Tail(fs))

\* f.stem.replace('issue-', '')
IssueOf(f) == RemoveAll(SubSeq(f, 1, Len(f) - 1), "issue-")

ContextOf(pathstr) == IF pathstr \in DOMAIN sidecar THEN sidecar[pathstr] ELSE None

\* the body of `for wt in worktrees:` of the metadata pass
WithMetadata(wt) ==
    LET path == Path(wt.path[1])
        ctx == ContextOf(Str(Div(path, <<".context">>)))
        first == IF ctx = None THEN None ELSE FirstIssueFile(ctx[1])
    IN [path |-> wt.path, head |-> wt.head, branch |-> wt.branch, detached |-> wt.detached,
        name |-> IF path # root_dir THEN PathName(path) ELSE <<"main">>,
        is_current |-> (path = root_dir),
        has_context |-> (ctx # None),
        issue |-> IF first = None THEN None ELSE Some(IssueOf(first[1])),
        children |-> <<>>]

AddMetadata ==
    /\ wt_pc = "meta"
    /\ \A k \in 1..Len(worktrees) : worktrees[k].path # None
    /\ worktrees' = [k \in 1..Len(worktrees) |-> WithMetadata(worktrees[k])]
    /\ wt_pc' = "children"
    /\ UNCHANGED <<run_exc, stdout, sidecar, i, current_wt, root_wts, ri, tree, stack>>
    /\ UNCHANGED stvars

\* wt['path'] raises KeyError, `except Exception` returns []
MetadataKeyError ==
    /\ wt_pc = "meta"
    /\ \E k \in 1..Len(worktrees) : worktrees[k].path = None
    /\ worktrees' = <<>>
    /\ wt_pc' = "returned"
    /\ UNCHANGED <<run_exc, stdout, sidecar, i, current_wt, root_wts, ri, tree, stack>>
    /\ UNCHANGED stvars

\* the test of the inner loop: is `child` nested under `wt`
IsNestedUnder(child_path, path) ==
    LET expected_parent == Div(Div(path, <<"worktrees">>), PathName(child_path))
    IN \/ child_path = expected_parent
       \/ /\ StartsWith(Str(child_path), Str(Div(path, <<"worktrees">>)))
          /\ child_path # path

\* the names of the records nested under wts[k], in list order
RECURSIVE ChildrenNames(_, _, _)
ChildrenNames(wts, k, c) ==
    IF c > Len(wts) THEN <<>>
    ELSE (IF IsNestedUnder(Path(wts[c].path[1]), Path(wts[k].path[1]))
          THEN <<wts[c].name>> ELSE <<>>) \o ChildrenNames(wts, k, c + 1)

BuildChildren ==
    /\ wt_pc = "children"
    /\ worktrees' = [k \in 1..Len(worktrees) |->
                        [worktrees[k] EXCEPT !.children = ChildrenNames(worktrees, k, 1)]]
    /\ wt_pc' = "returned"
    /\ UNCHANGED <<run_exc, stdout, sidecar, i, current_wt, root_wts, ri, tree, stack>>
    /\ UNCHANGED stvars

(***************************************************************************)
(* DevFlowTUI.create_worktree_tree and _add_children_to_tree               *)
(***************************************************************************)
\* `if not worktrees:` the placeholder entry (wt 0) is the only node
EmptyTree ==
    /\ wt_pc = "returned"
    /\ worktrees = <<>>
    /\ tree' = <<[wt |-> 0, parent |-> 0]>>
    /\ wt_pc' = "done"
    /\ UNCHANGED <<run_exc, stdout, sidecar, i, current_wt, worktrees, root_wts, ri, stack>>
    /\ UNCHANGED stvars

\* is_root of the record at k: no other record has it under its worktrees directory
IsRoot(wts, k) ==
    ~ \E o \in 1..Len(wts) :
        /\ wts[o] # wts[k]
        /\ StartsWith(Str(Path(wts[k].path[1])),
                      Str(Div(Path(wts[o].path[1]), <<"worktrees">>)))

RECURSIVE Roots(_, _)
Roots(wts, k) ==
    IF k > Len(wts) THEN <<>>
    ELSE (IF IsRoot(wts, k) THEN <<k>> ELSE <<>>) \o Roots(wts, k + 1)

\* the roots are rendered from the last record of the listing to the first
FindRoots_Reversed ==
    /\ wt_pc = "returned"
    /\ worktrees # <<>>
    /\ root_wts' = [k \in 1..Len(Roots(worktrees, 1)) |->
                        Roots(worktrees, 1)[Len(Roots(worktrees, 1)) + 1 - k]]
    /\ ri' = 0
    /\ wt_pc' = "render"
    /\ UNCHANGED <<run_exc, stdout, sidecar, i, current_wt, worktrees, tree, stack>>
    /\ UNCHANGED stvars

FindRoots ==
    /\ wt_pc = "returned"
    /\ worktrees # <<>>
    /\ root_wts' = Roots(worktrees, 1)
    /\ ri' = 0
    /\ wt_pc' = "render"
    /\ UNCHANGED <<run_exc, stdout, sidecar, i, current_wt, worktrees, tree, stack>>
    /\ UNCHANGED stvars

\* `for wt in root_wts:` tree.add(node_text), then the call of _add_children_to_tree
AddRoot ==
    /\ wt_pc = "render"
    /\ stack = <<>>
    /\ ri < Len(root_wts)
    /\ tree' = Append(tree, [wt |-> root_wts[ri + 1], parent |-> 0])
    /\ stack' = <<[node |-> Len(tree) + 1, wt |-> root_wts[ri + 1], k |-> 1]>>
    /\ ri' = ri + 1
    /\ UNCHANGED <<run_exc, stdout, sidecar, wt_pc, i, current_wt, worktrees, root_wts>>
    /\ UNCHANGED stvars

\* next((wt for wt in all_worktrees if wt['name'] == child_name), None): 0 for None
RECURSIVE FirstNamed(_, _, _)
FirstNamed(wts, name, k) ==
    IF k > Len(wts) THEN 0
    ELSE IF wts[k].name = name THEN k
    ELSE FirstNamed(wts, name, k + 1)

Top == stack[Len(stack)]
TopChild == FirstNamed(worktrees, worktrees[Top.wt].children[Top.k], 1)
Advance(stk) == [stk EXCEPT ![Len(stk)].k = @ + 1]

\* one iteration of `for child_name in parent_wt.get('children', [])`:
\* `if child_wt:` parent_node.add(node_text), then the recursive call
AddChild ==
    /\ wt_pc = "render"
    /\ stack # <<>>
    /\ Top.k <= Len(worktrees[Top.wt].children)
    /\ TopChild # 0 => Len(stack) < RecursionLimit
    /\ IF TopChild # 0
       THEN /\ tree' = Append(tree, [wt |-> TopChild, parent |-> Top.node])
            /\ stack' = Append(Advance(stack),
                               [node |-> Len(tree) + 1, wt |-> TopChild, k |-> 1])
       ELSE /\ tree' = tree
            /\ stack' = Advance(stack)
    /\ UNCHANGED <<run_exc, stdout, sidecar, wt_pc, i, current_wt, worktrees, root_wts, ri>>
    /\ UNCHANGED stvars

\* the recursive call exceeds the interpreter's recursion limit: RecursionError
\* leaves create_worktree_tree
RecursionError ==
    /\ wt_pc = "render"
    /\ stack # <<>>
    /\ Top.k <= Len(worktrees[Top.wt].children)
    /\ TopChild # 0
    /\ Len(stack) >= RecursionLimit
    /\ tree' = Append(tree, [wt |-> TopChild, parent |-> Top.node])
    /\ wt_pc' = "raised"
    /\ UNCHANGED <<run_exc, stdout, sidecar, i, current_wt, worktrees, root_wts, ri, stack>>
    /\ UNCHANGED stvars

\* the loop of a call of _add_children_to_tree is over: the call returns
ReturnFromChildren ==
    /\ wt_pc = "render"
    /\ stack # <<>>
    /\ Top.k > Len(worktrees[Top.wt].children)
    /\ stack' = SubSeq(stack, 1, Len(stack) - 1)
    /\ UNCHANGED <<run_exc, stdout, sidecar, wt_pc, i, current_wt, worktrees, root_wts, ri, tree>>
    /\ UNCHANGED stvars

\* `return tree`
TreeDone ==
    /\ wt_pc = "render"
    /\ stack = <<>>
    /\ ri = Len(root_wts)
    /\ wt_pc' = "done"
    /\ UNCHANGED <<run_exc, stdout, sidecar, i, current_wt, worktrees, root_wts, ri, tree, stack>>
    /\ UNCHANGED stvars

(***************************************************************************)
(* The listings the worktree specification starts from                     *)
(***************************************************************************)
WtLine(p) == <<"worktree", " ">> \o p

PathR == <<"/", "r">>
PathA == <<"/", "r", "/", "worktrees", "/", "a">>
PathAB == <<"/", "r", "/", "worktrees", "/", "a", "/", "worktrees", "/", "b">>
PathAA == <<"/", "r", "/", "worktrees", "/", "a", "/", "worktrees", "/", "a">>
PathX == <<"/", "r", "/", "worktrees", "x", "/", "b">>
PathW == <<"/", "r", "/", "worktrees">>
PathS == <<"/", "r", "/", "sub", "/", "b">>

ForestPaths == {PathR, PathA, PathAB, PathAA, PathX, PathW, PathS}

\* one record per path, each closed by an empty line
RECURSIVE ForestText(_)
ForestText(ps) ==
    IF ps = <<>> THEN <<>>
    ELSE <<WtLine(ps[1]), <<>>>> \o ForestText(Tail(ps))

SeqsUpTo(S, n) == UNION {[1..m -> S] : m \in 0..n}

ForestListings == {ForestText(ps) : ps \in SeqsUpTo(ForestPaths, MaxRecords)}

ParserLines ==
    {WtLine(PathR), WtLine(PathA),
     <<"HEAD", " ", "1">>,
     <<"branch", " ", "refs/heads/", "x">>,
     <<"detached">>,
     <<>>,
     <<"prunable", " ", "gone">>}

ParserListings == SeqsUpTo(ParserLines, MaxLines)

\* lines at the edge of the format: a worktree line without path, branch values
\* without the prefix and with the prefix a second time
EdgeLines ==
    {WtLine(PathR),
     WtLine(<<>>),
     <<"HEAD", " ", "1">>,
     <<"branch", " ", "x">>,
     <<"branch", " ", "refs/heads/", "x", "/", "refs/heads/", "y">>,
     <<>>}

EdgeListings == SeqsUpTo(EdgeLines, MaxLines)

NoSidecar == [p \in {} |-> None]

ContextA == PathA \o <<"/", ".context">>

SidecarListing == <<WtLine(PathR), <<>>, WtLine(PathA), <<>>>>

Sidecars ==
    {NoSidecar,
     [p \in {ContextA} |-> Some(<<>>)],
     [p \in {ContextA} |-> Some(<< <<"notes.md">>, <<"issue-", "42", ".md">> >>)],
     [p \in {ContextA} |-> Some(<< <<"issue-", "42", ".md">>, <<"issue-", "7", ".md">> >>)],
     [p \in {ContextA} |-> Some(<< <<"issue-", "7", ".md">>, <<"issue-", "42", ".md">> >>)]}

StatusIdle ==
    /\ pid_dir_exists = FALSE
    /\ pid_dir_writable = FALSE
    /\ pid_files0 = <<>>
    /\ pid_files = <<>>
    /\ procs = <<>>
    /\ st_pc = "idle"
    /\ srv = 0
    /\ pid_content = <<>>
    /\ status = <<>>
    /\ calls = <<>>
    /\ suspended = <<>>

InitTree ==
    /\ \/ stdout \in ForestListings \cup ParserListings \cup EdgeListings
          /\ sidecar = NoSidecar /\ run_exc = ""
       \/ stdout = SidecarListing /\ sidecar \in Sidecars /\ run_exc = ""
       \/ stdout = <<>> /\ sidecar = NoSidecar
          /\ run_exc \in {"CalledProcessError", "FileNotFoundError"}
    /\ wt_pc = "run"
    /\ i = 1
    /\ current_wt = EmptyWt
    /\ worktrees = <<>>
    /\ root_wts = <<>>
    /\ ri = 0
    /\ tree = <<>>
    /\ stack = <<>>
    /\ StatusIdle

NextTree ==
    \/ RunListing
    \/ ListingUnavailable
    \/ ParseLine
    \/ ParseEnd
    \/ AddMetadata
    \/ MetadataKeyError
    \/ BuildChildren
    \/ EmptyTree
    \/ FindRoots
    \/ AddRoot
    \/ AddChild
    \/ RecursionError
    \/ ReturnFromChildren
    \/ TreeDone

SpecTree == InitTree /\ [][NextTree]_vars

(***************************************************************************)
(* MCPServerManager.get_status                                             *)
(***************************************************************************)
\* self.servers, in the dict's order
ServerNames == <<"context7", "playwright", "python", "sequential", "zen">>

Servers == SubSeq(ServerNames, 1, IF NumServers < 5 THEN NumServers ELSE 5)

ServerSet == {Servers[k] : k \in 1..Len(Servers)}

\* process ids the pid files can hold; HugePid is outside the range of pid_t
PidTokens == {"101", "102", "103", "4294967296"}
HugePid == "4294967296"

\* exceptions that are subclasses of OSError
IsOSError(e) ==
    e \in {"FileNotFoundError", "PermissionError", "ProcessLookupError"}

\* exceptions `except (ValueError, FileNotFoundError)` catches
IsCaughtOuter(e) == e \in {"ValueError", "UnicodeDecodeError", "FileNotFoundError"}

\* pid_file.read_text(): the text, or the exception it raises
ReadText(f) ==
    IF f = None THEN [exc |-> "FileNotFoundError", text |-> <<>>]
    ELSE IF f[1].mode = "noread" THEN [exc |-> "PermissionError", text |-> <<>>]
    ELSE IF \E k \in 1..Len(f[1].data) : f[1].data[k] = "\\xff"
        THEN [exc |-> "UnicodeDecodeError", text |-> <<>>]
    ELSE [exc |-> "", text |-> f[1].data]

\* str.strip()
Strip(t) == RStrip(LStrip(t))

\* int(pid_content): one run of digits, or ValueError
IntOf(t) ==
    IF Len(t) = 1 /\ t[1] \in PidTokens THEN [exc |-> "", pid |-> t[1]]
    ELSE [exc |-> "ValueError", pid |-> ""]

\* os.kill(pid, 0): "" when it returns, else the exception
Kill0(pid) ==
    IF pid = HugePid THEN "OverflowError"
    ELSE IF procs[pid] = "own" THEN ""
    ELSE IF procs[pid] = "other" THEN "PermissionError"
    ELSE "ProcessLookupError"

\* pid_file.unlink(): "" when it returns, else the exception
Unlink(f) ==
    IF f = None THEN "FileNotFoundError"
    ELSE IF ~pid_dir_writable THEN "PermissionError"
    ELSE ""

\* what the handler around pid_file.unlink() lets through
UnlinkHandler_Reraises(e) == e

UnlinkHandler(e) == IF IsOSError(e) THEN "" ELSE e

\* the file system after pid_file.unlink() of the server s
AfterUnlink_Keeps(files, s) == files

AfterUnlink(files, s) ==
    IF Unlink(files[s]) = "" THEN [files EXCEPT ![s] = None] ELSE files

\* the status of a server that has no pid file
NoPidFileStatus == "not started"

\* the status when the content is empty after strip()
EmptyContentStatus_NotStarted == "not started"

EmptyContentStatus == "stopped"

CallRecord(outcome, exc, value, after) ==
    [outcome |-> outcome, exc |-> exc, value |-> value,
     dir |-> pid_dir_exists, before |-> pid_files0, after |-> after]

\* get_status ends with an exception nothing in it catches
Raise(exc) ==
    /\ st_pc' = "raised"
    /\ calls' = Append(calls, CallRecord("raised", exc, status, pid_files))
    /\ UNCHANGED <<srv, status, pid_content, pid_files>>

\* status[server_name] = v, then the next server or `return status`
Assign(v, files) ==
    /\ status' = (Servers[srv] :> v) @@ status
    /\ pid_files' = files
    /\ pid_content' = <<>>
    /\ IF srv = Len(Servers)
       THEN /\ st_pc' = "idle"
            /\ srv' = 0
            /\ calls' = Append(calls, CallRecord("returned", "", status', files))
       ELSE /\ st_pc' = "exists"
            /\ srv' = srv + 1
            /\ calls' = calls

\* the locals of a process that has not called get_status yet
IdleEvaluation ==
    [st_pc |-> "idle", srv |-> 0, pid_content |-> <<>>, status |-> <<>>,
     pid_files0 |-> <<>>, calls |-> <<>>]

\* the get_status calls a process has begun
Started(ev) == Len(ev.calls) + (IF ev.st_pc \in {"idle", "raised"} THEN 0 ELSE 1)

\* the call, up to the loop: `if not pid_dir.exists(): return {...}`
GetStatus ==
    /\ st_pc = "idle"
    /\ Len(calls) + Started(suspended) < MaxCalls
    /\ pid_files0' = pid_files
    /\ IF ~pid_dir_exists
       THEN /\ calls' = Append(calls,
                 [outcome |-> "returned", exc |-> "",
                  value |-> [n \in ServerSet |-> "not configured"],
                  dir |-> pid_dir_exists, before |-> pid_files, after |-> pid_files])
            /\ UNCHANGED <<st_pc, srv, status>>
       ELSE /\ status' = <<>>
            /\ srv' = 1
            /\ st_pc' = "exists"
            /\ calls' = calls
    /\ UNCHANGED <<pid_dir_exists, pid_dir_writable, pid_files, procs, pid_content>>
    /\ UNCHANGED <<wtvars, suspended>>

\* `if pid_file.exists():` ... `else: status[server_name] = "not started"`
CheckExists ==
    /\ st_pc = "exists"
    /\ IF pid_files[Servers[srv]] # None
       THEN /\ st_pc' = "read"
            /\ UNCHANGED <<srv, status, pid_content, pid_files, calls>>
       ELSE Assign(NoPidFileStatus, pid_files)
    /\ UNCHANGED <<pid_dir_exists, pid_dir_writable, procs, pid_files0>>
    /\ UNCHANGED <<wtvars, suspended>>

\* pid_content = pid_file.read_text().strip() ... pid = int(pid_content)
ReadPid ==
    /\ st_pc = "read"
    /\ LET r == ReadText(pid_files[Servers[srv]])
           n == IntOf(Strip(r.text))
       IN IF r.exc # ""
          THEN (IF IsCaughtOuter(r.exc) THEN Assign("stopped", pid_files) ELSE Raise(r.exc))
          ELSE IF Strip(r.text) = <<>> THEN Assign(EmptyContentStatus, pid_files)
          ELSE IF n.exc # "" THEN Assign("stopped", pid_files)
          ELSE /\ pid_content' = Strip(r.text)
               /\ st_pc' = "probe"
               /\ UNCHANGED <<srv, status, pid_files, calls>>
    /\ UNCHANGED <<pid_dir_exists, pid_dir_writable, procs, pid_files0>>
    /\ UNCHANGED <<wtvars, suspended>>

\* os.kill(pid, 0) and its `except OSError`
Probe ==
    /\ st_pc = "probe"
    /\ LET e == Kill0(IntOf(pid_content).pid)
       IN IF e = "" THEN Assign("running", pid_files)
          ELSE IF IsOSError(e)
              THEN /\ st_pc' = "unlink"
                   /\ UNCHANGED <<srv, status, pid_content, pid_files, calls>>
          ELSE Raise(e)
    /\ UNCHANGED <<pid_dir_exists, pid_dir_writable, procs, pid_files0>>
    /\ UNCHANGED <<wtvars, suspended>>

\* try: pid_file.unlink() except OSError: pass; status[server_name] = "stopped"
RemoveStale ==
    /\ st_pc = "unlink"
    /\ LET e == UnlinkHandler(Unlink(pid_files[Servers[srv]]))
       IN IF e = "" THEN Assign("stopped", AfterUnlink(pid_files, Servers[srv]))
          ELSE Raise(e)
    /\ UNCHANGED <<pid_dir_exists, pid_dir_writable, procs, pid_files0>>
    /\ UNCHANGED <<wtvars, suspended>>

\* the body of `for server_name, config in self.servers.items():` for the server
\* s on the pid files given: the exception that leaves get_status ("" for none),
\* the status assigned and the pid files afterwards
EvalServer(files, s) ==
    LET f == files[s]
        r == ReadText(f)
        t == Strip(r.text)
        n == IntOf(t)
        Done(st, fs) == [exc |-> "", st |-> st, files |-> fs]
        Raised(e) == [exc |-> e, st |-> "", files |-> files]
    IN IF f = None THEN Done(NoPidFileStatus, files)
       ELSE IF r.exc # ""
           THEN (IF IsCaughtOuter(r.exc) THEN Done("stopped", files) ELSE Raised(r.exc))
       ELSE IF t = <<>> THEN Done(EmptyContentStatus, files)
       ELSE IF n.exc # "" THEN Done("stopped", files)
       ELSE IF Kill0(n.pid) = "" THEN Done("running", files)
       ELSE IF ~IsOSError(Kill0(n.pid)) THEN Raised(Kill0(n.pid))
       ELSE IF UnlinkHandler(Unlink(f)) # "" THEN Raised(UnlinkHandler(Unlink(f)))
       ELSE Done("stopped", AfterUnlink(files, s))

\* the loop of get_status over the servers in the order given, from the k-th on
RECURSIVE EvalInOrder(_, _, _, _)
EvalInOrder(order, k, files, value) ==
    IF k > Len(order) THEN [outcome |-> "returned", value |-> value, files |-> files]
    ELSE LET r == EvalServer(files, order[k])
         IN IF r.exc # "" THEN [outcome |-> "raised", value |-> value, files |-> r.files]
            ELSE EvalInOrder(order, k + 1, r.files, (order[k] :> r.st) @@ value)

\* the scheduler takes the processor from the process evaluating get_status and
\* gives it to the other one, between two steps of the loop
Switch ==
    /\ suspended' = [st_pc |-> st_pc, srv |-> srv, pid_content |-> pid_content,
                     status |-> status, pid_files0 |-> pid_files0, calls |-> calls]
    /\ st_pc' = suspended.st_pc
    /\ srv' = suspended.srv
    /\ pid_content' = suspended.pid_content
    /\ status' = suspended.status
    /\ pid_files0' = suspended.pid_files0
    /\ calls' = suspended.calls
    /\ UNCHANGED <<pid_dir_exists, pid_dir_writable, pid_files, procs>>
    /\ UNCHANGED wtvars

\* a process other than the two removes the pid file of a server
OtherProcessRemoves ==
    /\ \E s \in ServerSet :
          /\ pid_files[s] # None
          /\ pid_files' = [pid_files EXCEPT ![s] = None]
    /\ UNCHANGED <<pid_dir_exists, pid_dir_writable, procs, st_pc, srv, pid_content, status,
                   pid_files0, calls, suspended>>
    /\ UNCHANGED wtvars

(***************************************************************************)
(* The file systems and process table the status specification starts from *)
(***************************************************************************)
File(mode, data) == Some([mode |-> mode, data |-> data])

PidFileChoices ==
    {None,
     File("r", <<>>),
     File("r", <<" ", "\n">>),
     File("r", <<"x">>),
     File("r", <<"\\xff">>),
     File("r", <<"101", "\n">>),
     File("r", <<"102", "\n">>),
     File("r", <<"103", "\n">>),
     File("r", <<HugePid>>),
     File("noread", <<"101">>)}

\* 101: a live process of this user; 102: a live process of another user
\* (the probe is refused); 103: no such process
ProcessTable == [p \in PidTokens \ {HugePid} |->
                    IF p = "101" THEN "own" ELSE IF p = "102" THEN "other" ELSE "none"]

TreeIdle ==
    /\ run_exc = ""
    /\ stdout = <<>>
    /\ sidecar = <<>>
    /\ wt_pc = "idle"
    /\ i = 0
    /\ current_wt = <<>>
    /\ worktrees = <<>>
    /\ root_wts = <<>>
    /\ ri = 0
    /\ tree = <<>>
    /\ stack = <<>>

\* a directory that does not exist holds no file
InitStatus ==
    /\ pid_dir_exists \in BOOLEAN
    /\ pid_dir_writable \in (IF pid_dir_exists THEN BOOLEAN ELSE {FALSE})
    /\ pid_files \in [ServerSet -> IF pid_dir_exists THEN PidFileChoices ELSE {None}]
    /\ procs = ProcessTable
    /\ st_pc = "idle"
    /\ srv = 0
    /\ pid_content = <<>>
    /\ status = <<>>
    /\ pid_files0 = pid_files
    /\ calls = <<>>
    /\ suspended = IdleEvaluation
    /\ TreeIdle

NextStatus ==
    \/ GetStatus
    \/ CheckExists
    \/ ReadPid
    \/ Probe
    \/ RemoveStale

SpecStatus == InitStatus /\ [][NextStatus]_vars

\* two processes evaluate get_status on one pid directory that exists
ConcFileChoices ==
    {None,
     File("r", <<"101", "\n">>),
     File("r", <<"103", "\n">>),
     File("r", <<HugePid>>)}

InitConc ==
    /\ pid_dir_exists = TRUE
    /\ pid_dir_writable \in BOOLEAN
    /\ pid_files \in [ServerSet -> ConcFileChoices]
    /\ procs = ProcessTable
    /\ st_pc = "idle"
    /\ srv = 0
    /\ pid_content = <<>>
    /\ status = <<>>
    /\ pid_files0 = pid_files
    /\ calls = <<>>
    /\ suspended = IdleEvaluation
    /\ TreeIdle

NextConc ==
    \/ GetStatus
    \/ CheckExists
    \/ ReadPid
    \/ Probe
    \/ RemoveStale
    \/ Switch
    \/ OtherProcessRemoves

SpecConc == InitConc /\ [][NextConc]_vars

(***************************************************************************)
(* Properties                                                              *)
(***************************************************************************)
Returned == wt_pc \in {"returned", "render", "done", "raised"}

Records == 1..Len(worktrees)

PathAt(k) == Path(worktrees[k].path[1])

DistinctPaths == \A a, b \in Records : a # b => worktrees[a].path # worktrees[b].path

NodesOf(k) == {n \in 1..Len(tree) : tree[n].wt = k}

\* C1: once the tree of a listing with pairwise distinct paths is assembled, every
\* record is the record of exactly one node of the tree.
C1_ForestCompleteness ==
    (wt_pc = "done" /\ worktrees # <<>> /\ DistinctPaths)
        => \A k \in Records : Cardinality(NodesOf(k)) = 1

\* C2: no record is its own ancestor in the tree under construction (the frames of
\* the recursion are the ancestors of the node being added), and the recursion
\* never exceeds the recursion limit.
C2_ForestAcyclic ==
    /\ wt_pc # "raised"
    /\ \A a, b \in 1..Len(stack) : a # b => stack[a].wt # stack[b].wt

\* the rule of the specification: child_path lies below the directory named
\* `worktrees` directly inside path, compared component by component
HasWorktreesAncestor(child_path, path) ==
    /\ child_path.abs = path.abs
    /\ Len(child_path.parts) > Len(path.parts) + 1
    /\ SubSeq(child_path.parts, 1, Len(path.parts) + 1) = Append(path.parts, <<"worktrees">>)

RECURSIVE RuleChildren(_, _)
RuleChildren(k, c) ==
    IF c > Len(worktrees) THEN <<>>
    ELSE (IF HasWorktreesAncestor(PathAt(c), PathAt(k)) THEN <<worktrees[c].name>> ELSE <<>>)
         \o RuleChildren(k, c + 1)

RECURSIVE RuleRoots(_)
RuleRoots(k) ==
    IF k > Len(worktrees) THEN <<>>
    ELSE (IF \E o \in Records : o # k /\ HasWorktreesAncestor(PathAt(k), PathAt(o))
          THEN <<>> ELSE <<k>>) \o RuleRoots(k + 1)

\* C3: the children list of a record A names exactly the records whose path has
\* A.path/worktrees as a proper ancestor, and the roots are exactly the records
\* that have no such A.
C3_NestingRulePrecision ==
    /\ (Returned /\ worktrees # <<>>)
           => \A k \in Records : worktrees[k].children = RuleChildren(k, 1)
    /\ (wt_pc \in {"render", "done", "raised"}) => root_wts = RuleRoots(1)

NamedIn(b, a) ==
    \E c \in 1..Len(worktrees[a].children) : worktrees[a].children[c] = worktrees[b].name

\* C4: after get_worktrees of a listing with pairwise distinct paths every record
\* is named in the children list of at most one other record.
C4_SingleParent ==
    (Returned /\ worktrees # <<>> /\ DistinctPaths)
        => \A b \in Records : Cardinality({a \in Records \ {b} : NamedIn(b, a)}) <= 1

(***************************************************************************)
(* C10: the records a well-formed listing stands for                       *)
(***************************************************************************)
IsWorktreeLine(l) == StartsWith(l, <<"worktree", " ">>)

\* each record begins with a `worktree <path>` line: a line that is neither empty
\* nor a worktree line follows a non-empty line; no line has blanks at its ends
WellFormedListing(text) ==
    \A j \in 1..Len(text) :
        /\ text[j] # <<>> => ~IsSpace(text[j][1]) /\ ~IsSpace(text[j][Len(text[j])])
        /\ IsWorktreeLine(text[j]) => Len(text[j]) > 2
        /\ (text[j] # <<>> /\ ~IsWorktreeLine(text[j])) => (j > 1 /\ text[j - 1] # <<>>)

\* the lines of the record that the worktree line at j opens: up to the next
\* empty line or worktree line
RecordLines(text, j) ==
    {m \in (j + 1)..Len(text) :
        \A q \in (j + 1)..m : text[q] # <<>> /\ ~IsWorktreeLine(text[q])}

Max(S) == CHOOSE x \in S : \A y \in S : y <= x

LastWith(text, j, key) ==
    LET hits == {m \in RecordLines(text, j) : StartsWith(text[m], key)}
    IN IF hits = {} THEN None ELSE Some(text[Max(hits)])

ExpectedRecord(text, j) ==
    LET h == LastWith(text, j, <<"HEAD", " ">>)
        b == LastWith(text, j, <<"branch", " ">>)
        d == LastWith(text, j, <<"detached">>)
    IN [path |-> Some(SubSeq(text[j], 3, Len(text[j]))),
        head |-> IF h = None THEN None ELSE Some(SubSeq(h[1], 3, Len(h[1]))),
        branch |-> IF b = None THEN None ELSE Some(BranchValue(b[1])),
        detached |-> IF d = None THEN None ELSE Some(TRUE)]

RECURSIVE ExpectedRecords(_, _)
ExpectedRecords(text, j) ==
    IF j > Len(text) THEN <<>>
    ELSE (IF IsWorktreeLine(text[j]) THEN <<ExpectedRecord(text, j)>> ELSE <<>>)
         \o ExpectedRecords(text, j + 1)

Parsed(wt) == [path |-> wt.path, head |-> wt.head, branch |-> wt.branch,
               detached |-> wt.detached]

\* C10: for a listing in which each record begins with a worktree line,
\* get_worktrees returns one record per worktree line, in input order, with the
\* HEAD, branch and detached values of the lines up to the next empty line or
\* worktree line.
C10_RecordTermination ==
    (Returned /\ WellFormedListing(stdout))
        => [k \in Records |-> Parsed(worktrees[k])] = ExpectedRecords(stdout, 1)

\* a record with a HEAD value closed only by the next worktree line, the text
\* ending without an empty line
C10_Witness ==
    /\ wt_pc = "returned"
    /\ WellFormedListing(stdout)
    /\ Len(worktrees) = 2
    /\ worktrees[1].head # None
    /\ \E j \in 2..Len(stdout) : IsWorktreeLine(stdout[j]) /\ stdout[j - 1] # <<>>
    /\ stdout[Len(stdout)] # <<>>

(***************************************************************************)
(* Properties of get_status, stated on the history of its calls            *)
(***************************************************************************)
Calls == 1..Len(calls)

\* the servers a call assigned a status to
Evaluated(c) == DOMAIN c.value

\* the file is readable text that is nothing but blanks (or nothing at all)
IsBlankFile(f) ==
    /\ f # None
    /\ f[1].mode = "r"
    /\ \A k \in 1..Len(f[1].data) : IsSpace(f[1].data[k])

\* the process id the file holds: one run of digits, blanks around it allowed
HoldsPid(f, p) ==
    /\ f # None
    /\ f[1].mode = "r"
    /\ \E k \in 1..Len(f[1].data) :
          /\ f[1].data[k] = p
          /\ \A j \in 1..Len(f[1].data) : j # k => IsSpace(f[1].data[j])

\* the file is readable and its content is no integer
IsUnparseableFile(f) ==
    /\ f # None
    /\ f[1].mode = "r"
    /\ ~IsBlankFile(f)
    /\ \A p \in PidTokens : ~HoldsPid(f, p)

LivePids == {p \in DOMAIN procs : procs[p] # "none"}
DeadPids == {p \in DOMAIN procs : procs[p] = "none"}

HoldsDeadPid(f) == \E p \in DeadPids : HoldsPid(f, p)
HoldsLivePid(f) == \E p \in LivePids : HoldsPid(f, p)

\* C5 as stated: a call that finds the pid of a dead process in the file of a
\* server reports "stopped" and has removed the file, and the next call reports
\* "not started" for that server.
C5_NonIdempotence ==
    \A n \in Calls : \A s \in ServerSet :
        (calls[n].dir /\ HoldsDeadPid(calls[n].before[s])) =>
            /\ s \in Evaluated(calls[n]) =>
                  calls[n].value[s] = "stopped" /\ calls[n].after[s] = None
            /\ (n + 1 \in Calls /\ s \in Evaluated(calls[n + 1])) =>
                  calls[n + 1].value[s] = "not started"

\* C5 amended: a call that finds the pid of a dead process in the file of a server
\* reports "stopped" and removes the file when the removal is permitted, leaving
\* it otherwise; the next call reports "not started" if the file is gone and
\* "stopped" again if it is still there.
C5_NonIdempotenceWhenRemoved ==
    \A n \in Calls : \A s \in ServerSet :
        (calls[n].dir /\ HoldsDeadPid(calls[n].before[s])) =>
            /\ s \in Evaluated(calls[n]) =>
                  /\ calls[n].value[s] = "stopped"
                  /\ calls[n].after[s] = IF pid_dir_writable THEN None
                                         ELSE calls[n].before[s]
            /\ (n + 1 \in Calls /\ s \in Evaluated(calls[n + 1])) =>
                  calls[n + 1].value[s] =
                      IF calls[n].after[s] = None THEN "not started" ELSE "stopped"

C5_Witness ==
    /\ Len(calls) >= 2
    /\ \E s \in ServerSet :
          /\ calls[1].dir
          /\ HoldsDeadPid(calls[1].before[s])
          /\ s \in Evaluated(calls[1]) /\ calls[1].value[s] = "stopped"
          /\ calls[1].after[s] = None
          /\ s \in Evaluated(calls[2]) /\ calls[2].value[s] = "not started"

\* C6: a server whose pid file holds the id of a process that exists is reported
\* "running" and its pid file is left in place, however the probe answers.
C6_LiveIsRunning ==
    \A n \in Calls : \A s \in Evaluated(calls[n]) :
        (calls[n].dir /\ HoldsLivePid(calls[n].before[s])) =>
            /\ calls[n].value[s] = "running"
            /\ calls[n].after[s] = calls[n].before[s]

\* C7: without the pid directory every configured server is "not configured";
\* with it, a server without pid file is "not started" and a server whose file is
\* empty, blank or no integer is "stopped", the file left in place.
C7_Classification ==
    \A n \in Calls :
        /\ ~calls[n].dir =>
              /\ calls[n].outcome = "returned"
              /\ Evaluated(calls[n]) = ServerSet
              /\ \A s \in ServerSet : calls[n].value[s] = "not configured"
        /\ calls[n].dir =>
              \A s \in Evaluated(calls[n]) :
                  /\ calls[n].before[s] = None => calls[n].value[s] = "not started"
                  /\ (IsBlankFile(calls[n].before[s]) \/ IsUnparseableFile(calls[n].before[s]))
                        => /\ calls[n].value[s] = "stopped"
                           /\ calls[n].after[s] = calls[n].before[s]

\* a call that reports "stopped" for a file of blanks, left in place, and
\* "not started" for a server without file
C7_Witness ==
    \E n \in Calls : \E s, t \in ServerSet :
        /\ calls[n].dir
        /\ calls[n].outcome = "returned"
        /\ IsBlankFile(calls[n].before[s]) /\ calls[n].before[s][1].data # <<>>
        /\ calls[n].value[s] = "stopped" /\ calls[n].after[s] # None
        /\ calls[n].before[t] = None /\ calls[n].value[t] = "not started"

\* C8: get_status raises no exception and every call returns a map with an entry
\* for every configured server.
C8_NeverAborts ==
    /\ st_pc # "raised"
    /\ \A n \in Calls : calls[n].outcome = "returned" /\ Evaluated(calls[n]) = ServerSet

\* the server a call was evaluating when it raised
RaisedAt(c) == Servers[Cardinality(Evaluated(c)) + 1]

\* the status of a server as a function of its own file and process alone
StatusRule(f) ==
    IF f = None THEN "not started"
    ELSE IF \E p \in DOMAIN procs : procs[p] = "own" /\ HoldsPid(f, p) THEN "running"
    ELSE "stopped"

\* C9: when the process recorded for a server is not alive and the removal of its
\* pid file fails, the call does not raise at that server, reports "stopped" for
\* it, and reports for every other server what that server's own file and process
\* determine, the same whether the removal succeeds or not.
C9_CleanupFailureSwallowed ==
    \A n \in Calls : \A s \in ServerSet :
        (calls[n].dir /\ ~pid_dir_writable /\ HoldsDeadPid(calls[n].before[s])) =>
            /\ calls[n].outcome = "raised" => RaisedAt(calls[n]) # s
            /\ s \in Evaluated(calls[n]) => calls[n].value[s] = "stopped"
            /\ \A t \in Evaluated(calls[n]) \ {s} :
                  calls[n].value[t] = StatusRule(calls[n].before[t])

C9_Witness ==
    \E n \in Calls : \E s, t \in ServerSet :
        /\ calls[n].dir /\ ~pid_dir_writable
        /\ calls[n].outcome = "returned"
        /\ HoldsDeadPid(calls[n].before[s])
        /\ calls[n].value[s] = "stopped"
        /\ calls[n].after[s] = calls[n].before[s]
        /\ t # s /\ calls[n].value[t] = "running"


(***************************************************************************)
(* C11: lines that belong to no record                                     *)
(***************************************************************************)
IsAttributeLine(l) ==
    \/ StartsWith(l, <<"HEAD", " ">>)
    \/ StartsWith(l, <<"branch", " ">>)
    \/ StartsWith(l, <<"detached">>)

\* a line with a key the format does not know, or with no key at all
IsUnknownLine(l) == l # <<>> /\ ~IsWorktreeLine(l) /\ ~IsAttributeLine(l)

\* the text without its unknown lines and without the attribute lines that no
\* worktree line precedes; open says that a worktree line began a record which
\* no empty line has ended
RECURSIVE WellFormedPart(_, _, _)
WellFormedPart(text, j, open) ==
    IF j > Len(text) THEN <<>>
    ELSE IF IsUnknownLine(text[j]) \/ (IsAttributeLine(text[j]) /\ ~open)
        THEN WellFormedPart(text, j + 1, open)
    ELSE <<text[j]>> \o WellFormedPart(text, j + 1, IsWorktreeLine(text[j]))

HasMalformedLine(text) == WellFormedPart(text, 1, FALSE) # text

\* C11: get_worktrees of a listing that holds unknown lines or attribute lines
\* outside a record does not raise and returns the records of the listing without
\* those lines.
C11_MalformedIgnored ==
    LET part == WellFormedPart(stdout, 1, FALSE)
    IN (Returned /\ run_exc = "" /\ HasMalformedLine(stdout) /\ WellFormedListing(part))
           => [k \in Records |-> Parsed(worktrees[k])] = ExpectedRecords(part, 1)


(***************************************************************************)
(* C12: the path of a record                                               *)
(***************************************************************************)
\* C12: every record get_worktrees returns has a path, and the path is not the
\* empty string.
C12_PathNonEmpty ==
    Returned => \A k \in Records : worktrees[k].path # None /\ worktrees[k].path[1] # <<>>


(***************************************************************************)
(* C13: the listing command fails                                          *)
(***************************************************************************)
\* C13: when the listing command exits non-zero (CalledProcessError) or is not
\* found (FileNotFoundError), no exception leaves get_worktrees or
\* create_worktree_tree, get_worktrees returns the empty list, and the tree that
\* create_worktree_tree returns to the loop of the TUI holds the placeholder entry
\* and no worktree node.
C13_ListingUnavailable ==
    run_exc # ""
        => /\ wt_pc \in {"run", "returned", "done"}
           /\ Returned => worktrees = <<>>
           /\ wt_pc = "done" => tree = <<[wt |-> 0, parent |-> 0]>>

\* create_worktree_tree has returned after the listing command failed
C13_Witness ==
    /\ run_exc \in {"CalledProcessError", "FileNotFoundError"}
    /\ wt_pc = "done"
    /\ worktrees = <<>>
    /\ Len(tree) = 1


(***************************************************************************)
(* C14: the value of a branch line                                         *)
(***************************************************************************)
\* the value without one leading refs/heads/
WithoutLeadingPrefix(v) == IF StartsWith(v, <<"refs/heads/">>) THEN Tail(v) ELSE v

\* C14: when the loop has consumed a `branch <value>` line, the branch of the open
\* record is <value> without one leading refs/heads/ if it starts with it, and
\* <value> itself otherwise; a later refs/heads/ inside the value stays.
C14_BranchPrefixOnce ==
    (wt_pc = "parse" /\ i > 1 /\ StartsWith(StdoutLines(stdout)[i - 1], <<"branch", " ">>))
        => current_wt.branch =
               Some(WithoutLeadingPrefix(AfterFirstSpace(StdoutLines(stdout)[i - 1])))


(***************************************************************************)
(* C15: has_context and issue                                              *)
(***************************************************************************)
\* the tokens of the file names of the sidecar directories, in ascending order of
\* their text
TokenOrder == <<".md", "42", "7", "issue-", "notes.md">>

TokenRank(t) == CHOOSE r \in 1..Len(TokenOrder) : TokenOrder[r] = t

\* f <= g in the lexical order of file names
RECURSIVE LexLeq(_, _)
LexLeq(f, g) ==
    IF f = <<>> THEN TRUE
    ELSE IF g = <<>> THEN FALSE
    ELSE IF f[1] = g[1] THEN LexLeq(Tail(f), Tail(g))
    ELSE TokenRank(f[1]) < TokenRank(g[1])

IssueFiles(fs) == {fs[k] : k \in {m \in 1..Len(fs) : IsIssueFile(fs[m])}}

\* the <id> of the file name issue-<id>.md
IdOf(f) == SubSeq(f, 2, Len(f) - 1)

LexicallyFirstIssue(fs) ==
    IF IssueFiles(fs) = {} THEN None
    ELSE Some(IdOf(CHOOSE f \in IssueFiles(fs) : \A g \in IssueFiles(fs) : LexLeq(f, g)))

\* C15: of every record returned, has_context says whether <path>/.context exists,
\* and issue is the id of the lexically first file issue-<id>.md of that directory,
\* absent when the directory is absent or holds no such file.
C15_SidecarMetadata ==
    (Returned /\ worktrees # <<>>)
        => \A k \in Records :
               LET ctx == ContextOf(Str(Div(PathAt(k), <<".context">>)))
               IN /\ worktrees[k].has_context = (ctx # None)
                  /\ worktrees[k].issue =
                         (IF ctx = None THEN None ELSE LexicallyFirstIssue(ctx[1]))
                  /\ worktrees[k].issue # None => worktrees[k].has_context


(***************************************************************************)
(* C16: what get_status changes in the pid directory                       *)
(***************************************************************************)
\* the orders in which the servers can be evaluated
Orders ==
    {o \in [1..Len(Servers) -> ServerSet] : \A a, b \in 1..Len(Servers) : a # b => o[a] # o[b]}

\* the only change of a call is the removal of the pid file of a server whose file
\* holds the id of a process that is not alive
OnlyStaleRemoved(c) ==
    \A s \in ServerSet :
        c.after[s] # c.before[s] => c.after[s] = None /\ HoldsDeadPid(c.before[s])

\* evaluating the servers in any order gives the status map and the pid files of
\* the call
SameInAnyOrder(c) ==
    \A o \in Orders :
        LET e == EvalInOrder(o, 1, c.before, <<>>)
        IN e.value = c.value /\ e.files = c.after

\* C16: a get_status call changes the pid directory only by removing the pid file
\* of a server whose file holds the id of a process that is not alive, and its
\* status map and the pid files it leaves are those of the evaluation of the
\* servers in any other order.
C16_CleanupSelfContained ==
    \A n \in Calls : calls[n].dir => OnlyStaleRemoved(calls[n]) /\ SameInAnyOrder(calls[n])


(***************************************************************************)
(* C17: evaluations of get_status interleaved on one pid directory         *)
(***************************************************************************)
\* the calls of both processes that have ended
AllCalls == calls \o suspended.calls

\* some call found the id of a process that is not alive in the file of s
RecordedDead(s) == \E n \in 1..Len(AllCalls) : HoldsDeadPid(AllCalls[n].before[s])

\* no call is under way and at least one has ended
AllFinished ==
    /\ st_pc \in {"idle", "raised"}
    /\ suspended.st_pc \in {"idle", "raised"}
    /\ AllCalls # <<>>

\* C17: when get_status calls of two processes interleave on one pid directory and
\* pid files are removed from outside between their steps, no call raises, a
\* server whose pid file held the id of a process that is not alive is reported
\* "stopped" or "not started" by every call, and once no call is under way the pid
\* file of such a server is gone.
C17_LockFreeInterleaving ==
    /\ st_pc # "raised" /\ suspended.st_pc # "raised"
    /\ \A n \in 1..Len(AllCalls) : \A s \in Evaluated(AllCalls[n]) :
           RecordedDead(s) => AllCalls[n].value[s] \in {"stopped", "not started"}
    /\ AllFinished => \A s \in ServerSet : RecordedDead(s) => pid_files[s] = None


(***************************************************************************)
(* C18: the order of roots and children                                    *)
(***************************************************************************)
DistinctNames == \A a, b \in Records : a # b => worktrees[a].name # worktrees[b].name

\* the names ch are names of records, in the order of the records from j on
RECURSIVE InListingOrder(_, _)
InListingOrder(ch, j) ==
    IF ch = <<>> THEN TRUE
    ELSE IF j > Len(worktrees) THEN FALSE
    ELSE IF worktrees[j].name = ch[1] THEN InListingOrder(Tail(ch), j + 1)
    ELSE InListingOrder(ch, j + 1)

\* the nodes directly below the root label of the tree
TopNodes == {n \in 1..Len(tree) : tree[n].parent = 0}

\* C18: the roots are taken and rendered in the order of their records in the
\* listing, the children list of every record names records in listing order, and
\* a record below <path>/worktrees of a record that comes later in the listing is
\* named in that record's children list and, in a finished tree of records with
\* distinct names, has a node below a node of that record.
C18_ListingOrder ==
    /\ wt_pc \in {"render", "done", "raised"} =>
           /\ \A a, b \in 1..Len(root_wts) : a < b => root_wts[a] < root_wts[b]
           /\ \A m, n \in TopNodes : m < n => tree[m].wt < tree[n].wt
    /\ (Returned /\ worktrees # <<>>) =>
           /\ \A k \in Records : InListingOrder(worktrees[k].children, 1)
           /\ \A c, p \in Records :
                  (c < p /\ HasWorktreesAncestor(PathAt(c), PathAt(p))) => NamedIn(c, p)
    /\ (wt_pc = "done" /\ worktrees # <<>> /\ DistinctNames) =>
           \A c, p \in Records :
               (c < p /\ HasWorktreesAncestor(PathAt(c), PathAt(p))) =>
                   \E n \in NodesOf(c) : tree[n].parent # 0 /\ tree[tree[n].parent].wt = p

\* a finished tree with two roots, the second root's path before the first's in
\* path order, and a record attached below a record that follows it in the listing
C18_Witness ==
    /\ wt_pc = "done"
    /\ Len(root_wts) = 2
    /\ worktrees[root_wts[1]].path = Some(PathS)
    /\ worktrees[root_wts[2]].path = Some(PathR)
    /\ \E c \in Records :
          /\ c < root_wts[2]
          /\ HasWorktreesAncestor(PathAt(c), PathAt(root_wts[2]))
          /\ \E n \in NodesOf(c) : tree[n].parent # 0 /\ tree[tree[n].parent].wt = root_wts[2]

====
